---------------------------- MODULE Spec2Model ----------------------------
(***************************************************************************)
(* Measurement pipeline of the child anthropometry project:                *)
(*   application/ml_cv/2.py        (variant "v2",    relaxed thresholds)   *)
(*   application/ml_cv/child.py    (variant "child", strict thresholds)    *)
(*   application/ml_cv/api_server.py  (/predict and /predict-url, which    *)
(*                                     call child.process_image)           *)
(*                                                                         *)
(* Numbers.  Pixel lengths, areas and scanline widths are integers.        *)
(* Normalised landmark coordinates and visibilities are tenths (CoordDen). *)
(* A computed real is kept exactly as a record                             *)
(*     [pi, rad, num, den]  standing for  pi^pi * sqrt(rad) * num / den    *)
(* so that math.hypot and math.pi never have to be rounded; comparisons    *)
(* against the rational bounds of the code are made by cross               *)
(* multiplication (squared when rad # 1, with math.pi as PiNum/PiDen).     *)
(***************************************************************************)
EXTENDS Integers, Sequences, FiniteSets, TLC

\* ------------------------------------------------------------------ bounds
MaxContours == 2

\* --------------------------------------------------------------- optionals
\* Python None / a present value
None == <<>>
Some(v) == <<v>>
IsNone(o) == o = <<>>
Val(o) == o[1]

\* ------------------------------------------------------------- arithmetic
Max(a, b) == IF a >= b THEN a ELSE b
Min(a, b) == IF a <= b THEN a ELSE b
Abs(a) == IF a >= 0 THEN a ELSE -a

RECURSIVE GCD(_, _)
GCD(a, b) == IF b = 0 THEN a ELSE GCD(b, a % b)

\* denominator of normalised coordinates and of visibilities (tenths)
CoordDen == 10
\* math.pi as a rational
PiNum == 355
PiDen == 113

\* the exact real pi^p * sqrt(r) * n / d, with n/d in lowest terms
Real(p, r, n, d) ==
    LET g == IF n = 0 THEN d ELSE GCD(Abs(n), d)
    IN  [pi |-> p, rad |-> IF n = 0 THEN 1 ELSE r,
         num |-> n \div g, den |-> d \div g]
Rat(n, d) == Real(0, 1, n, d)

\* x >= a/b and x <= a/b for a real x >= 0 and a rational a/b > 0
RealGeq(x, a, b) ==
    LET pn == IF x.pi = 1 THEN PiNum ELSE 1
        pd == IF x.pi = 1 THEN PiDen ELSE 1
        l  == pn * x.num * b
        r  == pd * x.den * a
        g  == GCD(Max(l, 1), r)
    IN  IF x.rad = 1 THEN l >= r
        ELSE x.rad * (l \div g) * (l \div g) >= (r \div g) * (r \div g)
RealLeq(x, a, b) ==
    LET pn == IF x.pi = 1 THEN PiNum ELSE 1
        pd == IF x.pi = 1 THEN PiDen ELSE 1
        l  == pn * x.num * b
        r  == pd * x.den * a
        g  == GCD(Max(l, 1), r)
    IN  IF x.rad = 1 THEN l <= r
        ELSE x.rad * (l \div g) * (l \div g) <= (r \div g) * (r \div g)
\* Python truthiness of a float: nonzero
Truthy(x) == x.num # 0

\* ------------------------------------------------------------ the variants
Variants == {"v2", "child"}

\* ============================================================ Scale Detector
\* what cv2.findContours / contourArea / minAreaRect report for one contour
Contour(a, w, h) == [area |-> a, rw |-> w, rh |-> h]
long_side(c) == Max(c.rw, c.rh)
short_side(c) == Min(c.rw, c.rh)

\* aspect = long_side / (short_side + 1e-8), compared without dividing:
\* for integer sides the 1e-8 only breaks exact ties, in favour of the
\* longer rectangle.
AspectAbove(c, k) == long_side(c) > k * short_side(c)
AspectGreater(a, b) ==
    \/ long_side(a) * short_side(b) > long_side(b) * short_side(a)
    \/ /\ long_side(a) * short_side(b) = long_side(b) * short_side(a)
       /\ long_side(a) > long_side(b)

\* the candidate test of the contour loop; area < 0.0005*w*h is skipped
IsCandidate(v, c, w, h) ==
    /\ ~(c.area * 2000 < w * h)
    /\ ~(short_side(c) <= 0)
    /\ IF v = "v2"
         THEN /\ AspectAbove(c, 8)
              /\ long_side(c) * 100 > 8 * Max(w, h)
              /\ long_side(c) * 10 < 4 * Max(w, h)
         ELSE /\ AspectAbove(c, 3)
              /\ long_side(c) * 100 > 5 * Max(w, h)
              /\ long_side(c) * 10 < 9 * Max(w, h)

RECURSIVE Candidates(_, _, _, _)
Candidates(v, cs, w, h) ==
    IF cs = <<>> THEN <<>>
    ELSE LET rest == Candidates(v, SubSeq(cs, 1, Len(cs) - 1), w, h)
             c    == cs[Len(cs)]
         IN  IF IsCandidate(v, c, w, h) THEN Append(rest, c) ELSE rest

\* the sort key, strictly greater: (aspect, long_side) in 2.py, area in child.py
KeyGreater(v, a, b) ==
    IF v = "v2"
      THEN \/ AspectGreater(a, b)
           \/ ~AspectGreater(a, b) /\ ~AspectGreater(b, a)
                /\ long_side(a) > long_side(b)
      ELSE a.area > b.area

\* list.sort(key=..., reverse=True): descending and stable
RECURSIVE InsertDesc(_, _, _)
InsertDesc(v, s, x) ==
    IF s = <<>> THEN <<x>>
    ELSE IF KeyGreater(v, x, s[1]) THEN <<x>> \o s
    ELSE <<s[1]>> \o InsertDesc(v, SubSeq(s, 2, Len(s)), x)
RECURSIVE SortDesc(_, _)
SortDesc(v, s) ==
    IF s = <<>> THEN <<>>
    ELSE InsertDesc(v, SortDesc(v, SubSeq(s, 1, Len(s) - 1)), s[Len(s)])

\* max(contours, key=cv2.contourArea): the first contour of greatest area
RECURSIVE MaxByArea(_)
MaxByArea(cs) ==
    IF Len(cs) = 1 THEN cs[1]
    ELSE LET m == MaxByArea(SubSeq(cs, 1, Len(cs) - 1))
         IN  IF cs[Len(cs)].area > m.area THEN cs[Len(cs)] ELSE m

\* variant: the fallback applies the long_side > 0 test of the contour loop
FallbackScale_positive(cs) ==
    IF cs # <<>> /\ long_side(MaxByArea(cs)) > 0
      THEN Some(long_side(MaxByArea(cs))) ELSE None
\* if contours: the largest contour's long side; otherwise None
FallbackScale(cs) ==
    IF cs # <<>> THEN Some(long_side(MaxByArea(cs))) ELSE None

detect_scale_pixel_length(v, cs, w, h) ==
    LET candidates == Candidates(v, cs, w, h)
    IN  IF candidates = <<>> THEN FallbackScale(cs)
        ELSE Some(long_side(SortDesc(v, candidates)[1]))


\* ======================================================= Geometry Extractors
\* A landmark is [x, y, visibility], all in tenths; a landmark set is a
\* function from the landmark names the provider delivered to landmarks.
Landmark(px, py, v) == [x |-> px, y |-> py, visibility |-> v]

RECURSIVE MinOf(_)
MinOf(S) == LET a == CHOOSE e \in S : TRUE
            IN  IF S = {a} THEN a ELSE Min(a, MinOf(S \ {a}))
RECURSIVE MaxOf(_)
MaxOf(S) == LET a == CHOOSE e \in S : TRUE
            IN  IF S = {a} THEN a ELSE Max(a, MaxOf(S \ {a}))

FaceNames == {"LEFT_EYE", "RIGHT_EYE", "NOSE", "LEFT_EAR", "RIGHT_EAR"}
FeetNames == {"LEFT_ANKLE", "RIGHT_ANKLE", "LEFT_HEEL", "RIGHT_HEEL",
              "LEFT_FOOT_INDEX", "RIGHT_FOOT_INDEX"}
ShoulderNames == {"LEFT_SHOULDER", "RIGHT_SHOULDER"}

\* offset in thousandths of the frame height: max(0.04, 0.14*|shoulder_y - min_y|),
\* or 0.06 when a shoulder lookup raises
head_offset(lms, min_y) ==
    IF ShoulderNames \subseteq DOMAIN lms
      THEN Max(40, 7 * Abs(lms["LEFT_SHOULDER"].y + lms["RIGHT_SHOULDER"].y
                           - 2 * min_y))
      ELSE 60

\* variant: the estimate is not clamped at the top of the frame
estimate_head_top_y_unclamped(lms, image_h) ==
    LET min_y == MinOf({lms[n].y : n \in FaceNames})
    IN  (100 * min_y - head_offset(lms, min_y)) * image_h
\* top of the head, in thousandths of a pixel
estimate_head_top_y(lms, image_h) ==
    LET min_y == MinOf({lms[n].y : n \in FaceNames})
        top_y == Max(0, 100 * min_y - head_offset(lms, min_y))
    IN  top_y * image_h

\* lowest foot point, in thousandths of a pixel
estimate_feet_y(lms, image_h) ==
    LET feet_y == MaxOf({lms[n].y : n \in FeetNames})
    IN  Min(1000 * image_h, 100 * feet_y * image_h)

\* variant: the difference is not clamped at 0
pixel_height_unclamped(lms, image_h) ==
    estimate_feet_y(lms, image_h) - estimate_head_top_y(lms, image_h)
\* pixel_height = max(0.0, feet_y - top_y), in thousandths of a pixel
pixel_height(lms, image_h) ==
    Max(0, estimate_feet_y(lms, image_h) - estimate_head_top_y(lms, image_h))

\* int() truncates; the coordinates of the model are never negative
landmark_point_to_pixel(lm, image_w, image_h) ==
    <<(lm.x * image_w) \div CoordDen, (lm.y * image_h) \div CoordDen>>

\* math.hypot, kept under the root
hypot(dx, dy) == Real(0, dx * dx + dy * dy, IF dx = 0 /\ dy = 0 THEN 0 ELSE 1, 1)
Scale(x, n, d) == Real(x.pi, x.rad, x.num * n, x.den * d)
TimesPi(x) == Real(1, x.rad, x.num, x.den)

\* pixel_per_cm = pixel_length / 15.0
pixel_per_cm(pixel_length) == Rat(pixel_length, 15)
\* x / pixel_per_cm, for pixel_per_cm # 0
PerCm(x, ppc) == Scale(x, ppc.den, ppc.num)

\* ========================================================= Head Circumference
\* variant: visibility >= 0.3 instead of > 0.3
EarsVisible_inclusive(lms) ==
    lms["LEFT_EAR"].visibility >= 3 /\ lms["RIGHT_EAR"].visibility >= 3
EarsVisible(lms) ==
    lms["LEFT_EAR"].visibility > 3 /\ lms["RIGHT_EAR"].visibility > 3

PixelSpan(a, b, image_w, image_h) ==
    LET l == landmark_point_to_pixel(a, image_w, image_h)
        r == landmark_point_to_pixel(b, image_w, image_h)
    IN  hypot(r[1] - l[1], r[2] - l[2])

\* variant: the eye distance is not scaled up
head_width_px_unscaled(lms, image_w, image_h) ==
    IF EarsVisible(lms)
      THEN PixelSpan(lms["LEFT_EAR"], lms["RIGHT_EAR"], image_w, image_h)
      ELSE PixelSpan(lms["LEFT_EYE"], lms["RIGHT_EYE"], image_w, image_h)
head_width_px(lms, image_w, image_h) ==
    IF EarsVisible(lms)
      THEN PixelSpan(lms["LEFT_EAR"], lms["RIGHT_EAR"], image_w, image_h)
      ELSE Scale(PixelSpan(lms["LEFT_EYE"], lms["RIGHT_EYE"], image_w, image_h),
                 16, 10)

measure_head_circumference(lms, image_w, image_h, ppc) ==
    Scale(TimesPi(PerCm(head_width_px(lms, image_w, image_h), ppc)), 108, 100)

\* ============================================ Wrist Circumference (primary)
Sides == <<"LEFT", "RIGHT">>
WristName(side) == IF side = "LEFT" THEN "LEFT_WRIST" ELSE "RIGHT_WRIST"
ElbowName(side) == IF side = "LEFT" THEN "LEFT_ELBOW" ELSE "RIGHT_ELBOW"
ShoulderName(side) == IF side = "LEFT" THEN "LEFT_SHOULDER" ELSE "RIGHT_SHOULDER"

\* What the image analysis of one wrist crop reports: the raw width of each
\* scanned row that has two edge pixels, and (2.py only) the shorter side of
\* the bounding rectangle of the valid contour closest to the crop centre.
Scan(rs, c) == [rows |-> rs, contour |-> c]

\* visibility < 0.4 (2.py) or < 0.5 (child.py): the side is skipped
WristHidden(v, wrist) ==
    IF v = "v2" THEN wrist.visibility < 4 ELSE wrist.visibility < 5

\* crop_size = int(max(60, 0.06*max(w, h))) or int(max(50, 0.05*max(w, h)))
crop_size(v, image_w, image_h) ==
    IF v = "v2" THEN Max(60, (6 * Max(image_w, image_h)) \div 100)
                ELSE Max(50, (5 * Max(image_w, image_h)) \div 100)

\* crop = image[y0:y1, x0:x1]; crop.size == 0
CropEmpty(v, wrist, image_w, image_h) ==
    LET p  == landmark_point_to_pixel(wrist, image_w, image_h)
        cs == crop_size(v, image_w, image_h)
        x0 == Max(0, p[1] - cs)
        x1 == Min(image_w, p[1] + cs)
        y0 == Max(0, p[2] - cs)
        y1 == Min(image_h, p[2] + cs)
    IN  x1 <= x0 \/ y1 <= y0

\* 5 < width < 120 (2.py), 10 < width < 80 (child.py)
WidthPlausible(v, width) ==
    IF v = "v2" THEN 5 < width /\ width < 120 ELSE 10 < width /\ width < 80

RECURSIVE ScanWidths(_, _)
ScanWidths(v, rows) ==
    IF rows = <<>> THEN <<>>
    ELSE LET rest == ScanWidths(v, SubSeq(rows, 1, Len(rows) - 1))
             x    == rows[Len(rows)]
         IN  IF WidthPlausible(v, x) THEN Append(rest, x) ELSE rest

\* method 2 of 2.py: only when the scanlines gave fewer than 3 widths
wrist_widths(v, scan) ==
    LET a == ScanWidths(v, scan.rows)
    IN  IF v = "v2" /\ Len(a) < 3 /\ ~IsNone(scan.contour)
             /\ 5 < Val(scan.contour) /\ Val(scan.contour) < 120
          THEN Append(a, Val(scan.contour))
          ELSE a

RECURSIVE InsertAsc(_, _)
InsertAsc(s, x) ==
    IF s = <<>> THEN <<x>>
    ELSE IF x < s[1] THEN <<x>> \o s
    ELSE <<s[1]>> \o InsertAsc(SubSeq(s, 2, Len(s)), x)
RECURSIVE SortAsc(_)
SortAsc(s) ==
    IF s = <<>> THEN <<>>
    ELSE InsertAsc(SortAsc(SubSeq(s, 1, Len(s) - 1)), s[Len(s)])

\* np.median of a non-empty list, as a rational
median(ws) ==
    LET s == SortAsc(ws)
        n == Len(s)
    IN  IF n % 2 = 1 THEN Rat(s[(n + 1) \div 2], 1)
        ELSE Rat(s[n \div 2] + s[n \div 2 + 1], 2)

\* the plausibility band: 6..25 cm (2.py), 8..16 cm (child.py)
WristBandLo(v) == IF v = "v2" THEN 6 ELSE 8
WristBandHi(v) == IF v = "v2" THEN 25 ELSE 16
\* variant: the sanity check is left out
InWristBand_unchecked(v, c) == TRUE
InWristBand(v, c) == RealGeq(c, WristBandLo(v), 1) /\ RealLeq(c, WristBandHi(v), 1)

\* wrist_circ = math.pi * (median / pixel_per_cm) * 1.3
wrist_circ_of(ws, ppc) == Scale(TimesPi(PerCm(median(ws), ppc)), 13, 10)

\* one pass of the loop over the sides: the accepted circumference, or None
side_measurement(v, lms, side, scan, image_w, image_h, ppc) ==
    LET wrist == lms[WristName(side)]
        ws    == wrist_widths(v, scan)
    IN  IF WristHidden(v, wrist) THEN None
        ELSE IF CropEmpty(v, wrist, image_w, image_h) THEN None
        ELSE IF ws = <<>> THEN None
        ELSE IF InWristBand(v, wrist_circ_of(ws, ppc))
               THEN Some(wrist_circ_of(ws, ppc))
               ELSE None

\* the list wrist_measurements after the loop
wrist_measurements_of(v, lms, scans, image_w, image_h, ppc) ==
    side_measurement(v, lms, "LEFT", scans[1], image_w, image_h, ppc)
      \o side_measurement(v, lms, "RIGHT", scans[2], image_w, image_h, ppc)

\* np.mean of one or two circumferences (all are rational multiples of pi)
mean(ms) ==
    IF Len(ms) = 1 THEN ms[1]
    ELSE Real(1, 1, ms[1].num * ms[2].den + ms[2].num * ms[1].den,
              2 * ms[1].den * ms[2].den)

measure_wrist_circumference(v, lms, scans, image_w, image_h, ppc) ==
    LET ms == wrist_measurements_of(v, lms, scans, image_w, image_h, ppc)
    IN  IF ms # <<>> THEN Some(mean(ms)) ELSE None

\* ============================================ Wrist Circumference (fallback)
\* the landmark lookups made for one arm: 2.py also reads the shoulder
ArmNames(v, side) ==
    IF v = "v2" THEN {ShoulderName(side), ElbowName(side), WristName(side)}
                ELSE {ElbowName(side), WristName(side)}

ArmEligible(v, lms, side) ==
    \A n \in ArmNames(v, side) : lms[n].visibility > 3

\* forearm_cm * 0.16, the forearm measured on the unrounded coordinates
arm_wrist_circ(lms, side, image_w, image_h, ppc) ==
    LET e == lms[ElbowName(side)]
        w == lms[WristName(side)]
        forearm_length_px ==
            Scale(hypot((w.x - e.x) * image_w, (w.y - e.y) * image_h),
                  1, CoordDen)
    IN  Scale(PerCm(forearm_length_px, ppc), 16, 100)

\* variant: the 8..18 sanity check is left out
InArmBand_unchecked(c) == TRUE
InArmBand(c) == RealGeq(c, 8, 1) /\ RealLeq(c, 18, 1)

\* one arm of the try block: "raise" when a lookup or the division raises,
\* "value" when the arm is eligible and its estimate is in 8..18, "skip"
\* otherwise
arm_estimate(v, lms, side, image_w, image_h, ppc) ==
    IF ~(ArmNames(v, side) \subseteq DOMAIN lms) THEN [kind |-> "raise"]
    ELSE IF ~ArmEligible(v, lms, side) THEN [kind |-> "skip"]
    ELSE IF ppc.num = 0 THEN [kind |-> "raise"]
    ELSE IF InArmBand(arm_wrist_circ(lms, side, image_w, image_h, ppc))
           THEN [kind |-> "value",
                 value |-> arm_wrist_circ(lms, side, image_w, image_h, ppc)]
           ELSE [kind |-> "skip"]

\* random.uniform(12.5, 14.5), in tenths
RandomDraws == {125, 135, 145}

\* returns the value and the return statement that produced it
estimate_wrist_from_arm_length(v, lms, image_w, image_h, ppc, draw) ==
    LET l == arm_estimate(v, lms, "LEFT", image_w, image_h, ppc)
        r == arm_estimate(v, lms, "RIGHT", image_w, image_h, ppc)
        typical_child_wrist == [value |-> Rat(draw, 10), source |-> "random"]
    IN  IF l.kind = "value" THEN [value |-> l.value, source |-> "left_arm"]
        ELSE IF l.kind = "raise" THEN typical_child_wrist
        ELSE IF r.kind = "value" THEN [value |-> r.value, source |-> "right_arm"]
        ELSE typical_child_wrist

\* ==================================================================== inputs
\* (width, height) of the decoded image
ImageSizes == {<<125, 205>>}

\* contours the edge detector can report: an isolated edge pixel, three
\* rulers of different length and aspect, and a large blob
ContourShapes ==
    {Contour(0, 0, 0), Contour(120, 60, 2), Contour(40, 20, 2),
     Contour(200, 40, 5), Contour(4000, 100, 40)}
ContourLists == UNION {[1..n -> ContourShapes] : n \in 0..MaxContours}

\* faces: eye and ear points with the ear visibilities
Face(el, er, al, ar, vl, vr) ==
    [eyeL |-> el, eyeR |-> er, earL |-> al, earR |-> ar, visL |-> vl, visR |-> vr]
Faces ==
    {Face(<<4, 2>>, <<6, 2>>, <<4, 2>>, <<6, 2>>, 10, 10),
     Face(<<4, 2>>, <<6, 2>>, <<4, 2>>, <<6, 2>>, 3, 10),
     Face(<<4, 2>>, <<6, 2>>, <<3, 2>>, <<7, 3>>, 10, 10),
     Face(<<4, 2>>, <<6, 2>>, <<3, 2>>, <<7, 3>>, 10, 2),
     Face(<<4, 0>>, <<6, 0>>, <<4, 0>>, <<6, 0>>, 10, 10)}
\* bodies: the two shoulder heights and the lowest foot height
Body(sl, sr, f) == [shL |-> sl, shR |-> sr, feet |-> f]
Bodies == {Body(3, 3, 10), Body(3, 4, 12), Body(3, 3, 1), Body(1, 1, 10)}
\* arms: elbow and wrist height, wrist column offset, and the visibilities
Arm(ey, wy, dx, vs, ve, vw) ==
    [elbowY |-> ey, wristY |-> wy, wristDx |-> dx, visS |-> vs, visE |-> ve, visW |-> vw]
Arms ==
    {Arm(4, 8, 0, 10, 10, 10), Arm(4, 5, 0, 10, 10, 10), Arm(4, 8, 0, 10, 10, 4),
     Arm(4, 8, 0, 10, 10, 3), Arm(4, 8, 0, 3, 10, 10), Arm(4, 8, 18, 10, 10, 10)}
\* landmark names whose lookup raises
Missing == {{"LEFT_ELBOW"}, {"RIGHT_SHOULDER"}}

AllNames ==
    FaceNames \cup FeetNames \cup ShoulderNames
      \cup {"LEFT_ELBOW", "RIGHT_ELBOW", "LEFT_WRIST", "RIGHT_WRIST"}

PosePoint(n, f, b, la, ra) ==
    CASE n = "LEFT_EYE"       -> Landmark(f.eyeL[1], f.eyeL[2], 10)
      [] n = "RIGHT_EYE"      -> Landmark(f.eyeR[1], f.eyeR[2], 10)
      [] n = "NOSE"           -> Landmark(5, f.eyeL[2], 10)
      [] n = "LEFT_EAR"       -> Landmark(f.earL[1], f.earL[2], f.visL)
      [] n = "RIGHT_EAR"      -> Landmark(f.earR[1], f.earR[2], f.visR)
      [] n = "LEFT_SHOULDER"  -> Landmark(2, b.shL, la.visS)
      [] n = "RIGHT_SHOULDER" -> Landmark(8, b.shR, ra.visS)
      [] n = "LEFT_ELBOW"     -> Landmark(2, la.elbowY, la.visE)
      [] n = "RIGHT_ELBOW"    -> Landmark(8, ra.elbowY, ra.visE)
      [] n = "LEFT_WRIST"     -> Landmark(2 + la.wristDx, la.wristY, la.visW)
      [] n = "RIGHT_WRIST"    -> Landmark(8 + ra.wristDx, ra.wristY, ra.visW)
      [] n \in {"LEFT_ANKLE", "RIGHT_ANKLE"} -> Landmark(5, Max(0, b.feet - 1), 10)
      [] OTHER                -> Landmark(5, b.feet, 10)

Pose(f, b, la, ra, m) ==
    [n \in AllNames \ m |-> PosePoint(n, f, b, la, ra)]

Face0 == Face(<<4, 2>>, <<6, 2>>, <<4, 2>>, <<6, 2>>, 10, 10)
Body0 == Body(3, 3, 10)
Arm0 == Arm(4, 8, 0, 10, 10, 10)
ArmShort == Arm(4, 5, 0, 10, 10, 10)
ArmHidden == Arm(4, 8, 0, 10, 10, 3)
ArmPairs ==
    {<<a, Arm0>> : a \in Arms} \cup {<<Arm0, a>> : a \in Arms}
      \cup {<<a, a>> : a \in Arms}
LandmarkSets ==
    {Pose(f, Body0, Arm0, Arm0, {}) : f \in Faces}
      \cup {Pose(Face0, b, Arm0, Arm0, {}) : b \in Bodies}
      \cup {Pose(Face0, Body0, a[1], a[2], {}) : a \in ArmPairs}
      \cup {Pose(Face0, Body0, a[1], a[2], m) :
              a \in {<<Arm0, Arm0>>, <<ArmShort, Arm0>>, <<ArmHidden, ArmHidden>>},
              m \in Missing}

\* scanline outcomes of one wrist crop
Scans ==
    {Scan(<<>>, Some(200)), Scan(<<12, 13, 40>>, None), Scan(<<8, 3>>, Some(10))}

\* ===================================================================== state
VARIABLES
    variant,            \* which process_image runs: 2.py or child.py
    caller,             \* "main", "predict" or "predict_url"
    api_pc,             \* position of the request handler
    temp_exists,        \* the temporary image file exists
    response,           \* the HTTP response, once sent
    pc,                 \* stage of process_image
    img,                \* cv2.imread: None or the image size
    contours,           \* contours found by detect_scale_pixel_length
    pixel_length,       \* its return value
    landmarks,          \* results.pose_landmarks
    height_cm,
    head_circ_cm,
    scans,              \* image analysis of the two wrist crops
    wrist_measurements, \* the list built by measure_wrist_circumference
    wrist_primary,      \* the return value of measure_wrist_circumference
    wrist_circ_cm,
    wrist_fallback_used,
    wrist_source,       \* which return statement produced wrist_circ_cm
    result,             \* the returned dictionary
    error,              \* the raised exception
    calls,              \* how often each detection ran
    rng,                \* the generator of the random module, shared by all runs
    runs                \* the local variables of each concurrent run

vars == <<variant, caller, api_pc, temp_exists, response, pc, img, contours,
          pixel_length, landmarks, height_cm, head_circ_cm, scans,
          wrist_measurements, wrist_primary, wrist_circ_cm,
          wrist_fallback_used, wrist_source, result, error, calls, rng, runs>>
concVars == <<rng, runs>>

apiVars == <<api_pc, temp_exists, response>>
Detections == {"scale", "pose", "wrist", "fallback"}

Callers == {<<"v2", "main">>, <<"child", "main">>,
            <<"child", "predict">>, <<"child", "predict_url">>}

Init ==
    /\ \E c \in Callers : variant = c[1] /\ caller = c[2]
    /\ api_pc = IF caller = "main" THEN "NONE" ELSE "RECEIVE"
    /\ temp_exists = FALSE
    /\ response = None
    /\ pc = "START"
    /\ img = None
    /\ contours = <<>>
    /\ pixel_length = None
    /\ landmarks = None
    /\ height_cm = None
    /\ head_circ_cm = None
    /\ scans = <<>>
    /\ wrist_measurements = <<>>
    /\ wrist_primary = None
    /\ wrist_circ_cm = None
    /\ wrist_fallback_used = FALSE
    /\ wrist_source = "none"
    /\ result = None
    /\ error = None
    /\ calls = [d \in Detections |-> 0]
    /\ rng = [stream |-> <<>>, pos |-> 0]
    /\ runs = <<>>

RuntimeError(m) == Some([type |-> "RuntimeError", msg |-> m])
ZeroDivisionError == Some([type |-> "ZeroDivisionError", msg |-> "float division by zero"])

\* ============================================================= process_image
\* img = cv2.imread(path); an unreadable image raises
ReadImage ==
    /\ pc = "START"
    /\ caller = "main" \/ api_pc = "PROCESS"
    /\ \E ok \in BOOLEAN, sz \in ImageSizes :
         IF ok
           THEN /\ img' = Some(sz)
                /\ pc' = "CALIBRATE"
                /\ error' = error
           ELSE /\ img' = None
                /\ pc' = "FAILED"
                /\ error' = RuntimeError("Unable to open image")
    /\ UNCHANGED <<concVars, variant, caller, apiVars, contours, pixel_length, landmarks,
                   height_cm, head_circ_cm, scans, wrist_measurements,
                   wrist_primary, wrist_circ_cm, wrist_fallback_used,
                   wrist_source, result, calls>>

\* variant: the None check after detect_scale_pixel_length is left out
AfterCalibrate_unchecked(pl) == "DETECT_LANDMARKS"
\* the stage entered after detect_scale_pixel_length returned
AfterCalibrate(pl) == IF IsNone(pl) THEN "FAILED" ELSE "DETECT_LANDMARKS"

\* pixel_length = detect_scale_pixel_length(gray, img); None raises
Calibrate ==
    /\ pc = "CALIBRATE"
    /\ \E cs \in ContourLists :
         LET pl == detect_scale_pixel_length(variant, cs, Val(img)[1], Val(img)[2])
         IN  /\ contours' = cs
             /\ pixel_length' = pl
             /\ pc' = AfterCalibrate(pl)
             /\ error' = IF IsNone(pl)
                           THEN RuntimeError("Could not detect the 15 cm scale automatically.")
                           ELSE error
    /\ calls' = [calls EXCEPT !["scale"] = @ + 1]
    /\ UNCHANGED <<concVars, variant, caller, apiVars, img, landmarks, height_cm,
                   head_circ_cm, scans, wrist_measurements, wrist_primary,
                   wrist_circ_cm, wrist_fallback_used, wrist_source, result>>

\* results = pose.process(...); no pose_landmarks raises
DetectLandmarks ==
    /\ pc = "DETECT_LANDMARKS"
    /\ \E r \in {None} \cup {Some(l) : l \in LandmarkSets} :
         /\ landmarks' = r
         /\ pc' = IF IsNone(r) THEN "FAILED" ELSE "COMPUTE_HEIGHT"
         /\ error' = IF IsNone(r)
                       THEN RuntimeError("Pose landmarks not detected. Ensure full body is visible.")
                       ELSE error
    /\ calls' = [calls EXCEPT !["pose"] = @ + 1]
    /\ UNCHANGED <<concVars, variant, caller, apiVars, img, contours, pixel_length,
                   height_cm, head_circ_cm, scans, wrist_measurements,
                   wrist_primary, wrist_circ_cm, wrist_fallback_used,
                   wrist_source, result>>

ImageW == Val(img)[1]
ImageH == Val(img)[2]
Ppc == pixel_per_cm(Val(pixel_length))

\* height_cm = pixel_height / pixel_per_cm: a float division, which raises
\* ZeroDivisionError when pixel_per_cm is 0.0
ComputeHeight ==
    /\ pc = "COMPUTE_HEIGHT"
    /\ IF Ppc.num = 0
         THEN /\ pc' = "FAILED"
              /\ error' = ZeroDivisionError
              /\ height_cm' = height_cm
         ELSE /\ pc' = "COMPUTE_HEAD"
              /\ error' = error
              /\ height_cm' =
                   Some(PerCm(Rat(pixel_height(Val(landmarks), ImageH), 1000), Ppc))
    /\ UNCHANGED <<concVars, variant, caller, apiVars, img, contours, pixel_length,
                   landmarks, head_circ_cm, scans, wrist_measurements,
                   wrist_primary, wrist_circ_cm, wrist_fallback_used,
                   wrist_source, result, calls>>

ComputeHead ==
    /\ pc = "COMPUTE_HEAD"
    /\ head_circ_cm' =
         Some(measure_head_circumference(Val(landmarks), ImageW, ImageH, Ppc))
    /\ pc' = "COMPUTE_WRIST"
    /\ UNCHANGED <<concVars, variant, caller, apiVars, img, contours, pixel_length,
                   landmarks, height_cm, scans, wrist_measurements,
                   wrist_primary, wrist_circ_cm, wrist_fallback_used,
                   wrist_source, result, error, calls>>

\* variants: the primary measurement is retried / the fallback always runs
AfterWrist_retry(w) == IF IsNone(w) THEN "COMPUTE_WRIST" ELSE "ASSEMBLE"
AfterWrist_always(w) == "WRIST_FALLBACK"
\* the stage entered after measure_wrist_circumference returned
AfterWrist(w) == IF IsNone(w) THEN "WRIST_FALLBACK" ELSE "ASSEMBLE"

\* wrist_circ_cm = measure_wrist_circumference(...); wrist_fallback_used = False
ComputeWrist ==
    /\ pc = "COMPUTE_WRIST"
    /\ \E sc \in Scans \X Scans :
         LET w == measure_wrist_circumference(variant, Val(landmarks), sc,
                                              ImageW, ImageH, Ppc)
         IN  /\ scans' = sc
             /\ wrist_measurements' =
                  wrist_measurements_of(variant, Val(landmarks), sc,
                                        ImageW, ImageH, Ppc)
             /\ wrist_primary' = w
             /\ wrist_circ_cm' = w
             /\ wrist_source' = IF IsNone(w) THEN "none" ELSE "primary"
             /\ pc' = AfterWrist(w)
    /\ wrist_fallback_used' = FALSE
    /\ calls' = [calls EXCEPT !["wrist"] = @ + 1]
    /\ UNCHANGED <<concVars, variant, caller, apiVars, img, contours, pixel_length,
                   landmarks, height_cm, head_circ_cm, result, error>>

\* if wrist_circ_cm is None: the arm-length fallback, and the flag is set
WristFallback ==
    /\ pc = "WRIST_FALLBACK"
    /\ \E draw \in RandomDraws :
         LET e == estimate_wrist_from_arm_length(variant, Val(landmarks),
                                                 ImageW, ImageH, Ppc, draw)
         IN  /\ wrist_circ_cm' = Some(e.value)
             /\ wrist_source' = e.source
    /\ wrist_fallback_used' = TRUE
    /\ pc' = "ASSEMBLE"
    /\ calls' = [calls EXCEPT !["fallback"] = @ + 1]
    /\ UNCHANGED <<concVars, variant, caller, apiVars, img, contours, pixel_length,
                   landmarks, height_cm, head_circ_cm, scans,
                   wrist_measurements, wrist_primary, result, error>>

\* the returned dictionary; float(wrist_circ_cm) if wrist_circ_cm else None
MeasurementResult(h, hc, w, used, ppc) ==
    [height_cm |-> h,
     head_circumference_cm |-> hc,
     wrist_circumference_cm |-> IF Truthy(w) THEN Some(w) ELSE None,
     wrist_fallback_used |-> used,
     pixel_per_cm |-> ppc]

Assemble ==
    /\ pc = "ASSEMBLE"
    /\ result' = Some(MeasurementResult(Val(height_cm), Val(head_circ_cm),
                                        Val(wrist_circ_cm), wrist_fallback_used,
                                        Ppc))
    /\ pc' = "DONE"
    /\ UNCHANGED <<concVars, variant, caller, apiVars, img, contours, pixel_length,
                   landmarks, height_cm, head_circ_cm, scans,
                   wrist_measurements, wrist_primary, wrist_circ_cm,
                   wrist_fallback_used, wrist_source, error, calls>>

\* ================================================================ api_server
\* what the request carries
Payloads == {"absent", "unfetchable", "undecodable", "image"}

Failure(status, m) ==
    Some([status |-> status, success |-> FALSE, error |-> m])

\* round(x, ndigits), kept as a term
round(x, nd) == [ndigits |-> nd, of |-> x]

\* the measurements object of the success response
Measurements(r) ==
    [height_cm |-> round(r.height_cm, 1),
     head_circumference_cm |-> round(r.head_circumference_cm, 1),
     wrist_circumference_cm |->
         IF ~IsNone(r.wrist_circumference_cm)
           THEN Some(round(Val(r.wrist_circumference_cm), 1)) ELSE None,
     pixel_per_cm |-> round(r.pixel_per_cm, 3)]

Success(r) ==
    Some([status |-> 200, success |-> TRUE, measurements |-> Measurements(r)])

\* what b64decode (/predict) or urlopen (/predict-url) raises
DecodeError(endpoint) ==
    Some([type |-> IF endpoint = "predict" THEN "binascii.Error" ELSE "URLError",
          msg |-> "cannot read the image data"])

\* variant: every exception is answered like a RuntimeError
ErrorResponse_always400(e) == Failure(400, e.msg)
\* except RuntimeError: 400 with str(e); except Exception: 500
ErrorResponse(e) ==
    IF e.type = "RuntimeError"
      THEN Failure(400, e.msg)
      ELSE Failure(500, <<"Server error: ", e.msg>>)

\* the handler up to the call of process_image: a missing field or an
\* undecodable image is answered with 400, an exception while decoding or
\* downloading with 500; otherwise the image is written to a temporary file
Receive(endpoint) ==
    /\ caller = endpoint
    /\ api_pc = "RECEIVE"
    /\ \E p \in Payloads :
         CASE p = "absent" ->
                /\ error' = error
                /\ response' = Failure(400, IF endpoint = "predict"
                                              THEN "No image data provided"
                                              ELSE "No image URL provided")
                /\ api_pc' = "RESPONDED"
                /\ temp_exists' = temp_exists
           [] p = "unfetchable" ->
                /\ error' = DecodeError(endpoint)
                /\ response' = ErrorResponse(Val(DecodeError(endpoint)))
                /\ api_pc' = "RESPONDED"
                /\ temp_exists' = temp_exists
           [] p = "undecodable" ->
                /\ error' = error
                /\ response' = Failure(400, IF endpoint = "predict"
                                              THEN "Failed to decode image"
                                              ELSE "Failed to decode image from URL")
                /\ api_pc' = "RESPONDED"
                /\ temp_exists' = temp_exists
           [] OTHER ->
                /\ error' = error
                /\ response' = response
                /\ api_pc' = "PROCESS"
                /\ temp_exists' = TRUE
    /\ UNCHANGED <<concVars, variant, caller, pc, img, contours, pixel_length, landmarks,
                   height_cm, head_circ_cm, scans, wrist_measurements,
                   wrist_primary, wrist_circ_cm, wrist_fallback_used,
                   wrist_source, result, calls>>

\* the handler after process_image returned or raised: the result is
\* serialised with 200 after os.unlink; a RuntimeError is answered with 400
\* after os.unlink; any other exception reaches the outer handler, which
\* answers 500
Respond(endpoint) ==
    /\ caller = endpoint
    /\ api_pc = "PROCESS"
    /\ pc \in {"DONE", "FAILED"}
    /\ IF pc = "DONE"
         THEN /\ temp_exists' = FALSE
              /\ response' = Success(Val(result))
         ELSE /\ temp_exists' = IF Val(error).type = "RuntimeError"
                                  THEN FALSE ELSE temp_exists
              /\ response' = ErrorResponse(Val(error))
    /\ api_pc' = "RESPONDED"
    /\ UNCHANGED <<concVars, variant, caller, pc, img, contours, pixel_length, landmarks,
                   height_cm, head_circ_cm, scans, wrist_measurements,
                   wrist_primary, wrist_circ_cm, wrist_fallback_used,
                   wrist_source, result, error, calls>>

predict_measurements_receive == Receive("predict")
predict_measurements_respond == Respond("predict")
predict_from_url_receive == Receive("predict_url")
predict_from_url_respond == Respond("predict_url")

\* ============================================================ specification
Next ==
    \/ ReadImage
    \/ Calibrate
    \/ DetectLandmarks
    \/ ComputeHeight
    \/ ComputeHead
    \/ ComputeWrist
    \/ WristFallback
    \/ Assemble
    \/ predict_measurements_receive
    \/ predict_measurements_respond
    \/ predict_from_url_receive
    \/ predict_from_url_respond

Spec == Init /\ [][Next]_vars

\* =========================================================== concurrent runs
\* two requests served at the same time, each in its own call of process_image
Runs == {"a", "b"}
\* the values random.uniform(12.5, 14.5) returns, in order, after random.seed(s)
Streams == {<<125, 135>>, <<135, 145>>, <<145, 125>>}
\* random.uniform on the module-level generator: the next value of the stream
random_uniform(g) == g.stream[g.pos + 1]

ConcImage == CHOOSE s \in ImageSizes : TRUE
ConcLandmarkSets ==
    {Pose(Face0, Body0, a[1], a[2], {}) :
       a \in {<<Arm0, Arm0>>, <<ArmHidden, ArmHidden>>, <<ArmHidden, Arm0>>}}
ScaleLengths == {20, 60}

seqVars == <<variant, caller, api_pc, temp_exists, response, pc, img, contours,
             pixel_length, landmarks, height_cm, head_circ_cm, scans,
             wrist_measurements, wrist_primary, wrist_circ_cm,
             wrist_fallback_used, wrist_source, result, error, calls>>

\* the locals of a run that has not started
NewRun ==
    [pc |-> "START", landmarks |-> None, pixel_length |-> None,
     wrist_primary |-> None, wrist_circ_cm |-> None,
     wrist_fallback_used |-> FALSE, result |-> None]

InitConcurrent ==
    /\ variant \in Variants
    /\ caller = "main"
    /\ api_pc = "NONE"
    /\ temp_exists = FALSE
    /\ response = None
    /\ pc = "START"
    /\ img = None
    /\ contours = <<>>
    /\ pixel_length = None
    /\ landmarks = None
    /\ height_cm = None
    /\ head_circ_cm = None
    /\ scans = <<>>
    /\ wrist_measurements = <<>>
    /\ wrist_primary = None
    /\ wrist_circ_cm = None
    /\ wrist_fallback_used = FALSE
    /\ wrist_source = "none"
    /\ result = None
    /\ error = None
    /\ calls = [d \in Detections |-> 0]
    /\ \E s \in Streams : rng = [stream |-> s, pos |-> 0]
    /\ runs = [r \in Runs |-> NewRun]

\* process_image up to the primary wrist measurement: only locals are touched
process_image_measure(r) ==
    /\ r \in DOMAIN runs
    /\ runs[r].pc = "START"
    /\ \E lms \in ConcLandmarkSets, pl \in ScaleLengths, sc \in Scans \X Scans :
         LET w == measure_wrist_circumference(variant, lms, sc, ConcImage[1],
                                              ConcImage[2], pixel_per_cm(pl))
         IN  runs' = [runs EXCEPT ![r] =
                        [@ EXCEPT !.pc = AfterWrist(w),
                                  !.landmarks = Some(lms),
                                  !.pixel_length = Some(pl),
                                  !.wrist_primary = w,
                                  !.wrist_circ_cm = w]]
    /\ UNCHANGED <<rng, seqVars>>

\* the arm-length fallback of one run; random.uniform advances the generator
\* of the random module, which is the same object in every run
process_image_fallback(r) ==
    /\ r \in DOMAIN runs
    /\ runs[r].pc = "WRIST_FALLBACK"
    /\ LET e == estimate_wrist_from_arm_length(
                  variant, Val(runs[r].landmarks), ConcImage[1], ConcImage[2],
                  pixel_per_cm(Val(runs[r].pixel_length)), random_uniform(rng))
       IN  /\ runs' = [runs EXCEPT ![r] =
                         [@ EXCEPT !.pc = "ASSEMBLE",
                                   !.wrist_circ_cm = Some(e.value),
                                   !.wrist_fallback_used = TRUE]]
           /\ rng' = IF e.source = "random"
                       THEN [rng EXCEPT !.pos = @ + 1] ELSE rng
    /\ UNCHANGED seqVars

\* the dictionary process_image returns for given locals
process_image_result(lms, pl, w, used) ==
    LET ppc == pixel_per_cm(pl)
    IN  MeasurementResult(
          PerCm(Rat(pixel_height(lms, ConcImage[2]), 1000), ppc),
          measure_head_circumference(lms, ConcImage[1], ConcImage[2], ppc),
          w, used, ppc)

process_image_return(r) ==
    /\ r \in DOMAIN runs
    /\ runs[r].pc = "ASSEMBLE"
    /\ runs' = [runs EXCEPT ![r] =
                  [@ EXCEPT !.pc = "DONE",
                            !.result = Some(process_image_result(
                               Val(runs[r].landmarks), Val(runs[r].pixel_length),
                               Val(runs[r].wrist_circ_cm),
                               runs[r].wrist_fallback_used))]]
    /\ UNCHANGED <<rng, seqVars>>

NextConcurrent ==
    \E r \in Runs :
      \/ process_image_measure(r)
      \/ process_image_fallback(r)
      \/ process_image_return(r)

SpecConcurrent == InitConcurrent /\ [][NextConcurrent]_vars

\* ================================================================ properties
Unreadable == pc # "START" /\ IsNone(img)
ScaleAbsent == calls["scale"] = 1 /\ IsNone(pixel_length)
PoseAbsent == calls["pose"] = 1 /\ IsNone(landmarks)

\* C1: process_image returns a record only when the image was read, the
\* scale detector returned a length and the pose provider returned
\* landmarks; when the image is unreadable, the detector returns None or
\* there are no landmarks, the call has raised RuntimeError and there is no
\* record.
C1_RecordOnlyWhenAllDetected ==
    /\ ~IsNone(result) =>
         ~IsNone(img) /\ ~IsNone(pixel_length) /\ ~IsNone(landmarks)
    /\ (Unreadable \/ ScaleAbsent \/ PoseAbsent) =>
         /\ pc = "FAILED"
         /\ ~IsNone(error) /\ Val(error).type = "RuntimeError"
         /\ IsNone(result)
C1_Witness ==
    /\ pc = "FAILED" /\ PoseAbsent /\ ~IsNone(pixel_length) /\ IsNone(result)

\* C2: once landmarks exist, process_image cannot abort: no run that has
\* landmarks ends in an exception.
C2_NoAbortOnceLandmarks ==
    ~IsNone(landmarks) => pc # "FAILED"

\* C3: in every run that proceeds past calibration, pixels_per_cm
\* (= pixel_length / 15) is strictly greater than 0.
C3_PixelsPerCmPositive ==
    ~IsNone(pixel_length) => Ppc.num > 0

\* position of a stage in START -> CALIBRATE -> DETECT_LANDMARKS ->
\* COMPUTE_HEIGHT -> COMPUTE_HEAD -> COMPUTE_WRIST(+FALLBACK) -> ASSEMBLE -> DONE
StageRank(st) ==
    CASE st = "START" -> 0
      [] st = "CALIBRATE" -> 1
      [] st = "DETECT_LANDMARKS" -> 2
      [] st = "COMPUTE_HEIGHT" -> 3
      [] st = "COMPUTE_HEAD" -> 4
      [] st = "COMPUTE_WRIST" -> 5
      [] st = "WRIST_FALLBACK" -> 6
      [] st = "ASSEMBLE" -> 7
      [] st = "DONE" -> 8
      [] OTHER -> 9

\* C4: the stages run in the fixed order, never going back to an earlier
\* stage, and scale detection, pose detection, the primary wrist measurement
\* and the wrist fallback each run at most once per call.
C4_StagesInOrderOnce ==
    [][/\ pc' # pc => StageRank(pc') > StageRank(pc)
       /\ \A d \in Detections : calls'[d] <= 1
       /\ calls' # calls => pc' # pc]_vars
C4_Witness ==
    pc = "DONE" /\ \A d \in Detections : calls[d] = 1

\* C5: the fallback is invoked only when measure_wrist_circumference
\* returned None, wrist_fallback_used of the result is true exactly in those
\* runs, and a value returned by the primary path is the value of the result.
C5_FallbackOnlyWhenPrimaryAbsent ==
    /\ calls["fallback"] = 1 => calls["wrist"] = 1 /\ IsNone(wrist_primary)
    /\ ~IsNone(result) =>
         /\ Val(result).wrist_fallback_used <=> calls["fallback"] = 1
         /\ Val(result).wrist_fallback_used <=> IsNone(wrist_primary)
         /\ ~IsNone(wrist_primary) =>
              Val(result).wrist_circumference_cm = wrist_primary
C5_Witness ==
    /\ ~IsNone(result) /\ ~IsNone(wrist_primary)
    /\ Val(result).wrist_circumference_cm = wrist_primary
    /\ ~Val(result).wrist_fallback_used

\* C6: whenever the wrist value delivered to a caller is the last-resort
\* random value, that caller also receives wrist_fallback_used = true, in
\* the record returned by process_image and in the /predict and
\* /predict-url responses built from it.
C6_RandomWristIsFlagged ==
    /\ (wrist_source = "random" /\ ~IsNone(result)) =>
         Val(result).wrist_fallback_used
    /\ (wrist_source = "random" /\ ~IsNone(response) /\ Val(response).success) =>
         /\ "wrist_fallback_used" \in DOMAIN Val(response).measurements
         /\ Val(response).measurements["wrist_fallback_used"]

\* C7: estimate_wrist_from_arm_length always returns a number, also when a
\* landmark lookup raises: in [12.5, 14.5] when neither arm gives an
\* estimate, and in [8, 18] in every case; so wrist_circumference_cm of a
\* completed result is never None.
C7_FallbackAlwaysNumeric ==
    /\ calls["fallback"] = 1 =>
         LET l == arm_estimate(variant, Val(landmarks), "LEFT", ImageW, ImageH, Ppc)
             r == arm_estimate(variant, Val(landmarks), "RIGHT", ImageW, ImageH, Ppc)
         IN  /\ ~IsNone(wrist_circ_cm)
             /\ RealGeq(Val(wrist_circ_cm), 8, 1)
             /\ RealLeq(Val(wrist_circ_cm), 18, 1)
             /\ (l.kind # "value" /\ r.kind # "value") =>
                  /\ RealGeq(Val(wrist_circ_cm), 25, 2)
                  /\ RealLeq(Val(wrist_circ_cm), 29, 2)
    /\ ~IsNone(result) => ~IsNone(Val(result).wrist_circumference_cm)
C7_Witness ==
    /\ pc = "DONE" /\ calls["fallback"] = 1 /\ wrist_source = "random"
    /\ "LEFT_ELBOW" \notin DOMAIN Val(landmarks)
    /\ ~IsNone(Val(result).wrist_circumference_cm)

\* the circumference computed for one side, when the side was measured
SideMeasured(i) ==
    /\ ~WristHidden(variant, Val(landmarks)[WristName(Sides[i])])
    /\ ~CropEmpty(variant, Val(landmarks)[WristName(Sides[i])], ImageW, ImageH)
    /\ wrist_widths(variant, scans[i]) # <<>>
SideCirc(i) == wrist_circ_of(wrist_widths(variant, scans[i]), Ppc)
SideAccepted(i) ==
    /\ SideMeasured(i)
    /\ RealGeq(SideCirc(i), WristBandLo(variant), 1)
    /\ RealLeq(SideCirc(i), WristBandHi(variant), 1)

\* C8: measure_wrist_circumference returns None or the arithmetic mean of
\* the per-side circumferences inside the band (6..25 cm in 2.py, 8..16 cm
\* in child.py); a side outside the band contributes nothing, a returned
\* value lies inside the band, and None is returned exactly when no side
\* was accepted.
C8_PrimaryWristInBand ==
    calls["wrist"] = 1 =>
      LET n == Cardinality({i \in 1..2 : SideAccepted(i)})
      IN  /\ Len(wrist_measurements) = n
          /\ IsNone(wrist_primary) <=> n = 0
          /\ \A i \in 1..2 :
               SideAccepted(i) =>
                 \E k \in 1..Len(wrist_measurements) :
                   wrist_measurements[k] = SideCirc(i)
          /\ ~IsNone(wrist_primary) =>
               /\ RealGeq(Val(wrist_primary), WristBandLo(variant), 1)
               /\ RealLeq(Val(wrist_primary), WristBandHi(variant), 1)
               /\ Val(wrist_primary).pi = 1 /\ Val(wrist_primary).rad = 1
               /\ n = 1 => \E i \in 1..2 :
                             SideAccepted(i) /\ Val(wrist_primary) = SideCirc(i)
               /\ n = 2 =>
                    2 * Val(wrist_primary).num * SideCirc(1).den * SideCirc(2).den
                      = Val(wrist_primary).den
                          * (SideCirc(1).num * SideCirc(2).den
                               + SideCirc(2).num * SideCirc(1).den)
C8_Witness ==
    /\ calls["wrist"] = 1 /\ ~IsNone(wrist_primary)
    /\ SideAccepted(1) /\ SideAccepted(2) /\ SideCirc(1) # SideCirc(2)
    /\ Val(wrist_primary) # SideCirc(1) /\ Val(wrist_primary) # SideCirc(2)

\* the squared pixel distance between two landmarks
PixelDist2(a, b) ==
    LET l == landmark_point_to_pixel(a, ImageW, ImageH)
        r == landmark_point_to_pixel(b, ImageW, ImageH)
    IN  (r[1] - l[1]) * (r[1] - l[1]) + (r[2] - l[2]) * (r[2] - l[2])

\* C9: measure_head_circumference never signals failure and chooses its
\* width by ear visibility alone: the ear-to-ear pixel distance iff both
\* ear visibilities are > 0.3, otherwise 1.6 times the eye-to-eye pixel
\* distance; the circumference is pi * (width / pixels_per_cm) * 1.08.
C9_HeadWidthSource ==
    /\ pc = "FAILED" => IsNone(height_cm)
    /\ StageRank(pc) \in 5..8 => ~IsNone(head_circ_cm)
    /\ ~IsNone(head_circ_cm) =>
         LET lms  == Val(landmarks)
             hc   == Val(head_circ_cm)
             ears == lms["LEFT_EAR"].visibility > 3 /\ lms["RIGHT_EAR"].visibility > 3
             d2   == IF ears THEN PixelDist2(lms["LEFT_EAR"], lms["RIGHT_EAR"])
                             ELSE PixelDist2(lms["LEFT_EYE"], lms["RIGHT_EYE"])
             \* width / sqrt(d2), as a fraction
             kn   == IF ears THEN 1 ELSE 16
             kd   == IF ears THEN 1 ELSE 10
         IN  /\ hc.pi = 1
             /\ hc.rad = d2
             \* hc.num / hc.den = (kn / kd) * (15 / pixel_length) * 1.08
             /\ hc.num * kd * Val(pixel_length) * 100 = hc.den * kn * 15 * 108
C9_Witness ==
    /\ ~IsNone(head_circ_cm)
    /\ Val(landmarks)["LEFT_EAR"].visibility = 3
    /\ Val(landmarks)["RIGHT_EAR"].visibility = 10
    /\ Val(head_circ_cm).rad
         = PixelDist2(Val(landmarks)["LEFT_EYE"], Val(landmarks)["RIGHT_EYE"])

\* the landmark set with both ear visibilities replaced
WithEarVisibility(lms, v) ==
    [n \in DOMAIN lms |->
       IF n \in {"LEFT_EAR", "RIGHT_EAR"}
         THEN [lms[n] EXCEPT !.visibility = v] ELSE lms[n]]
EarsAtEyes(lms) ==
    /\ lms["LEFT_EAR"].x = lms["LEFT_EYE"].x /\ lms["LEFT_EAR"].y = lms["LEFT_EYE"].y
    /\ lms["RIGHT_EAR"].x = lms["RIGHT_EYE"].x /\ lms["RIGHT_EAR"].y = lms["RIGHT_EYE"].y

\* C10: for a landmark set whose ears and eyes are at the same two points,
\* the head circumference with the ears invisible is exactly 1.6 times the
\* head circumference with both ears visible, for the same image and
\* calibration.
C10_EyeFallbackRatio ==
    (~IsNone(head_circ_cm) /\ EarsAtEyes(Val(landmarks))) =>
      LET hidden == measure_head_circumference(
                      WithEarVisibility(Val(landmarks), 0), ImageW, ImageH, Ppc)
          shown  == measure_head_circumference(
                      WithEarVisibility(Val(landmarks), 10), ImageW, ImageH, Ppc)
      IN  /\ hidden.pi = shown.pi /\ hidden.rad = shown.rad
          /\ shown.num > 0
          /\ 10 * hidden.num * shown.den = 16 * shown.num * hidden.den
C10_Witness ==
    /\ ~IsNone(head_circ_cm) /\ EarsAtEyes(Val(landmarks))
    /\ ~EarsVisible(Val(landmarks))
    /\ Val(head_circ_cm)
         = measure_head_circumference(WithEarVisibility(Val(landmarks), 0),
                                      ImageW, ImageH, Ppc)

\* C11: the pixel height max(0, feet_y - head_top_y) is never negative, and
\* is 0 whenever the lowest foot landmark is above the estimated head top;
\* so height_cm is never negative.
C11_HeightNeverNegative ==
    ~IsNone(height_cm) =>
      LET feet == estimate_feet_y(Val(landmarks), ImageH)
          top  == estimate_head_top_y(Val(landmarks), ImageH)
          h    == Val(height_cm)
      IN  /\ h.num >= 0 /\ h.den > 0
          /\ feet < top => h.num = 0
          \* height_cm = (feet - top) / 1000 / (pixel_length / 15) otherwise
          /\ feet >= top =>
               h.num * 1000 * Val(pixel_length) = h.den * 15 * (feet - top)
C11_Witness ==
    /\ ~IsNone(height_cm)
    /\ estimate_feet_y(Val(landmarks), ImageH)
         < estimate_head_top_y(Val(landmarks), ImageH)
    /\ Val(height_cm).num = 0

\* C12: the handlers answer the terminal failures raised by process_image
\* (RuntimeError) with a 4xx response carrying the failure message and every
\* other exception raised while handling the request with a 5xx response; a
\* success response is sent only when process_image returned a result.
C12_FailureStatusMapping ==
    api_pc = "RESPONDED" =>
      /\ (~IsNone(error) /\ Val(error).type = "RuntimeError") =>
           /\ Val(response).status \in 400..499
           /\ ~Val(response).success
           /\ Val(response).error = Val(error).msg
      /\ (~IsNone(error) /\ Val(error).type # "RuntimeError") =>
           /\ Val(response).status \in 500..599
           /\ ~Val(response).success
      /\ Val(response).success =>
           /\ Val(response).status = 200
           /\ pc = "DONE" /\ ~IsNone(result) /\ IsNone(error)
C12_Witness ==
    /\ api_pc = "RESPONDED" /\ PoseAbsent
    /\ Val(response).status = 400
    /\ Val(response).error = "Pose landmarks not detected. Ensure full body is visible."

\* the result a run returns when it is the only run after random.seed(s)
ResultAlone(r) ==
    LET lms == Val(runs[r].landmarks)
        pl  == Val(runs[r].pixel_length)
        wp  == runs[r].wrist_primary
        e   == estimate_wrist_from_arm_length(
                 variant, lms, ConcImage[1], ConcImage[2], pixel_per_cm(pl),
                 rng.stream[1])
    IN  process_image_result(lms, pl, IF IsNone(wp) THEN e.value ELSE Val(wp),
                             IsNone(wp))

\* C13: two runs of process_image executed concurrently share no mutable
\* state: under a fixed seed each run returns, in every interleaving, the
\* result it returns when run alone, the random wrist value included.
C13_ConcurrentRunsIndependent ==
    \A r \in DOMAIN runs :
      runs[r].pc = "DONE" => Val(runs[r].result) = ResultAlone(r)

\* position of the first contour of greatest area
LargestAt(cs, i) ==
    /\ \A j \in DOMAIN cs : cs[j].area <= cs[i].area
    /\ \A j \in 1..(i - 1) : cs[j].area < cs[i].area
NoCandidate ==
    \A i \in DOMAIN contours : ~IsCandidate(variant, contours[i], ImageW, ImageH)

\* C14: detect_scale_pixel_length returns absent if and only if the image
\* yields zero contours; with at least one contour it returns a length, the
\* long side of a ruler candidate or, when no contour is a candidate, the
\* long side of the largest-area contour; an absent return makes process_image
\* fail with the scale-not-found error.
C14_ScaleAbsentIffNoContours ==
    calls["scale"] = 1 =>
      /\ IsNone(pixel_length) <=> contours = <<>>
      /\ (contours # <<>> /\ NoCandidate) =>
           \E i \in DOMAIN contours :
             /\ LargestAt(contours, i)
             /\ Val(pixel_length) = long_side(contours[i])
      /\ (contours # <<>> /\ ~NoCandidate) =>
           \E i \in DOMAIN contours :
             /\ IsCandidate(variant, contours[i], ImageW, ImageH)
             /\ Val(pixel_length) = long_side(contours[i])
      /\ IsNone(pixel_length) =>
           /\ pc = "FAILED"
           /\ IsNone(result)
           /\ error = RuntimeError("Could not detect the 15 cm scale automatically.")
C14_Witness ==
    /\ calls["scale"] = 1
    /\ Len(contours) = 2 /\ NoCandidate
    /\ contours[1].area < contours[2].area
    /\ pixel_length = Some(long_side(contours[2]))

\* a ranks strictly above b under (aspect, long_side)
RankGreater(a, b) ==
    \/ long_side(a) * short_side(b) > long_side(b) * short_side(a)
    \/ /\ long_side(a) * short_side(b) = long_side(b) * short_side(a)
       /\ long_side(a) > long_side(b)

\* C15: among the ruler candidates, detect_scale_pixel_length returns the
\* long side of the candidate greatest under (aspect, long_side) descending:
\* the highest aspect ratio wins, the longer one among equal aspect ratios,
\* whatever the contour areas and the order in which contours were found.
C15_BestCandidateByAspect ==
    (calls["scale"] = 1 /\ ~NoCandidate) =>
      \E i \in DOMAIN contours :
        /\ IsCandidate(variant, contours[i], ImageW, ImageH)
        /\ Val(pixel_length) = long_side(contours[i])
        /\ \A j \in DOMAIN contours :
             IsCandidate(variant, contours[j], ImageW, ImageH)
               => ~RankGreater(contours[j], contours[i])

\* an arm is available: shoulder, elbow and wrist each more visible than 0.3
ArmAvailable(lms, side) ==
    /\ {ShoulderName(side), ElbowName(side), WristName(side)} \subseteq DOMAIN lms
    /\ lms[ShoulderName(side)].visibility > 3
    /\ lms[ElbowName(side)].visibility > 3
    /\ lms[WristName(side)].visibility > 3
ArmAccepted(lms, side) ==
    /\ ArmAvailable(lms, side)
    /\ RealGeq(arm_wrist_circ(lms, side, ImageW, ImageH, Ppc), 8, 1)
    /\ RealLeq(arm_wrist_circ(lms, side, ImageW, ImageH, Ppc), 18, 1)

\* C16: when the primary wrist measurement is absent the arm-length fallback
\* runs once and evaluates the available arms left before right: an arm
\* counts only if its shoulder, elbow and wrist visibilities each exceed 0.3,
\* the right arm is used only after the left arm was ineligible or out of
\* 8..18 cm, and wrist_fallback_used is true.
C16_FallbackArmsLeftThenRight ==
    calls["fallback"] = 1 =>
      LET lms == Val(landmarks)
      IN  /\ IsNone(wrist_primary)
          /\ wrist_fallback_used
          /\ wrist_source \in {"left_arm", "right_arm", "random"}
          /\ wrist_source = "left_arm" =>
               /\ ArmAccepted(lms, "LEFT")
               /\ Val(wrist_circ_cm) = arm_wrist_circ(lms, "LEFT", ImageW, ImageH, Ppc)
          /\ wrist_source = "right_arm" =>
               /\ ~ArmAccepted(lms, "LEFT")
               /\ ArmAccepted(lms, "RIGHT")
               /\ Val(wrist_circ_cm) = arm_wrist_circ(lms, "RIGHT", ImageW, ImageH, Ppc)
          /\ (wrist_source = "random" /\ DOMAIN lms = AllNames) =>
               ~ArmAccepted(lms, "LEFT") /\ ~ArmAccepted(lms, "RIGHT")

\* process_image has called estimate_head_top_y on a complete landmark set
\* whose visibilities are all 1.0
HeadTopEstimated ==
    /\ ~IsNone(landmarks) /\ pc # "COMPUTE_HEIGHT"
    /\ DOMAIN Val(landmarks) = AllNames
    /\ \A n \in AllNames : Val(landmarks)[n].visibility = 10
\* in thousandths of a pixel, as estimate_head_top_y
MinShoulderY ==
    100 * ImageH * Min(Val(landmarks)["LEFT_SHOULDER"].y,
                       Val(landmarks)["RIGHT_SHOULDER"].y)
MinFaceY == MinOf({Val(landmarks)[n].y : n \in FaceNames})

\* C17 as stated: for every landmark set with all visibilities 1.0 and
\* coordinates in [0,1], estimate_head_top_y is strictly less than the
\* minimum shoulder y (in pixels) and strictly greater than 0.
C17_HeadTopBetweenZeroAndShoulders ==
    HeadTopEstimated =>
      /\ estimate_head_top_y(Val(landmarks), ImageH) < MinShoulderY
      /\ estimate_head_top_y(Val(landmarks), ImageH) > 0

\* C17 amended: the estimate is never negative and never below the topmost
\* face landmark; it is strictly greater than 0 exactly when the topmost face
\* landmark lies more than the offset below the top of the frame; it is
\* strictly less than the minimum shoulder y whenever no shoulder lies above
\* the topmost face landmark and the minimum shoulder y is positive.
C17_HeadTopBounds ==
    HeadTopEstimated =>
      LET top == estimate_head_top_y(Val(landmarks), ImageH)
          off == Max(40, 7 * Abs(Val(landmarks)["LEFT_SHOULDER"].y
                                 + Val(landmarks)["RIGHT_SHOULDER"].y
                                 - 2 * MinFaceY))
      IN  /\ top >= 0
          /\ top <= 100 * ImageH * MinFaceY
          /\ top > 0 <=> 100 * MinFaceY > off
          /\ (MinShoulderY >= 100 * ImageH * MinFaceY /\ MinShoulderY > 0)
               => top < MinShoulderY
C17_Witness ==
    /\ HeadTopEstimated
    /\ MinFaceY = 0
    /\ estimate_head_top_y(Val(landmarks), ImageH) = 0
    /\ ~IsNone(height_cm)

\* round(n / d) for n >= 0, d > 0: to the nearest integer, ties to even
RoundHalfEven(n, d) ==
    LET q == n \div d
        r == n % d
    IN  IF 2 * r < d THEN q
        ELSE IF 2 * r > d THEN q + 1
        ELSE IF q % 2 = 0 THEN q ELSE q + 1

\* C18: landmark_point_to_pixel maps a normalized landmark (x, y) and the
\* image size (w, h) to (round(x*w), round(y*h)), the nearest pixel, for
\* every x, y in [0,1].
C18_PixelIsNearest ==
    ~IsNone(head_circ_cm) =>
      \A n \in DOMAIN Val(landmarks) :
        LET lm == Val(landmarks)[n]
        IN  (lm.x \in 0..CoordDen /\ lm.y \in 0..CoordDen) =>
              landmark_point_to_pixel(lm, ImageW, ImageH)
                = <<RoundHalfEven(lm.x * ImageW, CoordDen),
                    RoundHalfEven(lm.y * ImageH, CoordDen)>>

\* C19: every temporary image file a handler created is deleted before the
\* handler returns its response, on every exit path after the file was
\* created: success, a terminal failure raised by process_image, and any
\* other exception raised by process_image.
C19_TempFileDeletedOnEveryExit ==
    api_pc = "RESPONDED" => ~temp_exists

=============================================================================
